---- MODULE Spec2Model ----
(***************************************************************************)
(* microf: the `convert` / `rename` file manipulation utility.             *)
(*                                                                         *)
(* The model follows src/microf/__main__.py: main parses the arguments and *)
(* calls rename_func or convert_func, which classify the collected files,  *)
(* build the shell commands and call run; run prints the commands, hands   *)
(* them to submit_to_slurm, or executes them one by one.  The generated    *)
(* batch script is kept as data (its walltime and its case blocks) and is  *)
(* executed by the array tasks the scheduler starts.                       *)
(*                                                                         *)
(* Strings that the code takes apart (the fields of a file name) are       *)
(* sequences of symbols; a shell command line is the sequence of simple    *)
(* commands it holds, separated by `;`.                                    *)
(***************************************************************************)
EXTENDS Integers, Sequences, FiniteSets, TLC

\* ------------------------------------------------------------------------
\* Bounds of the model

\* most path arguments on the command line (nargs='+': at least one)
MaxPaths == 2
\* longest command list handed directly to submit_to_slurm
MaxCmds == 3
\* largest small chunk size handed directly to submit_to_slurm
MaxSize == 3

\* ------------------------------------------------------------------------
\* Program constants

\* default of --batch-size
DefaultBatchSize == 200
\* seconds allowed per command in the walltime formula
SecondsPerCommand == 5
\* posix.EX_USAGE
EX_USAGE == 64
\* exit status of the script's fallback branch
EX_SOFTWARE == 70

\* ------------------------------------------------------------------------
\* Python helpers

\* True and False used as numbers
BoolAsInt(b) == IF b THEN 1 ELSE 0

\* int(num / den) for num >= 0, den > 0: truncation
IntOfQuotient(num, den) == num \div den

\* the smallest integer >= num / den, for num >= 0, den > 0
CeilDiv(num, den) == (num + den - 1) \div den

\* s.replace(ch, "")
Replace(s, ch) == SelectSeq(s, LAMBDA x : x # ch)

\* index of the first ch in s, 0 if there is none
RECURSIVE Find(_, _, _)
Find(s, ch, k) ==
    IF k > Len(s) THEN 0
    ELSE IF s[k] = ch THEN k
    ELSE Find(s, ch, k + 1)

\* s.split(sep)
RECURSIVE Split(_, _)
Split(s, sep) ==
    LET k == Find(s, sep, 1) IN
    IF k = 0 THEN <<s>>
    ELSE <<SubSeq(s, 1, k - 1)>> \o Split(SubSeq(s, k + 1, Len(s)), sep)

\* s.zfill(width), s holding digits only
RECURSIVE Zfill(_, _)
Zfill(s, width) == IF Len(s) >= width THEN s ELSE Zfill(<<"0">> \o s, width)

\* ext.lower()
Lower(ext) ==
    CASE ext = ".TIF" -> ".tif"
      [] ext = ".TIFF" -> ".tiff"
      [] ext = ".PNG" -> ".png"
      [] OTHER -> ext

\* ------------------------------------------------------------------------
\* Microscope file format data

\* IC6000['channels']
Channels ==
    ( <<"UV", "-", "DAPI">>     :> "01" ) @@
    ( <<"Blue", "-", "FITC">>   :> "02" ) @@
    ( <<"Green", "-", "dsRed">> :> "03" ) @@
    ( <<"Red", "-", "Cy5">>     :> "04" )

\* A file name: form "IC6000" is  <n>_<w>(fld <s> wv <c>)<ext>,
\* form "plain" is <n><ext>.
IC6000Name(n, w, s, c, ext) ==
    [form |-> "IC6000", n |-> n, w |-> w, s |-> s, c |-> c, ext |-> ext]
PlainName(n, ext) ==
    [form |-> "plain", n |-> n, w |-> <<>>, s |-> <<>>, c |-> <<>>, ext |-> ext]

NoMatch == [matched |-> FALSE, n |-> <<>>, w |-> <<>>, s |-> <<>>, c |-> <<>>]

\* re.compile(IC6000['pattern'], re.I).search(image_name): the named groups.
\* The pattern ends in `\).(tif|png)` and is searched case-insensitively,
\* so `.tif`, `.TIF`, `.tiff` and `.png` endings all match.
PatternSearch(name) ==
    IF /\ name.form = "IC6000"
       /\ Lower(name.ext) \in {".tif", ".tiff", ".png"}
    THEN [matched |-> TRUE, n |-> name.n, w |-> name.w, s |-> name.s, c |-> name.c]
    ELSE NoMatch

\* a lookup that falls back to a placeholder code instead of raising
ChannelLookupWithDefault(channels, c) ==
    LET key == Replace(c, " ") IN
    [err |-> "none", code |-> IF key \in DOMAIN channels THEN channels[key] ELSE "00"]

\* channels[params['c'].replace(" ","")]: the code, or KeyError
ChannelLookup(channels, c) ==
    LET key == Replace(c, " ") IN
    IF key \in DOMAIN channels
    THEN [err |-> "none", code |-> channels[key]]
    ELSE [err |-> "KeyError", code |-> ""]

\* _IC6000_replace(params, channels)
IC6000_replace(params, channels) ==
    LET exp_name == Replace(params.n, "_")
        parts    == Split(Replace(params.w, " "), "-")
        site     == Zfill(params.s, 3)
        channel  == ChannelLookup(channels, params.c)
    IN  IF Len(parts) < 2
        THEN [err |-> "IndexError", exp_name |-> <<>>, well |-> <<>>,
              site |-> <<>>, channel |-> ""]
        ELSE IF channel.err # "none"
        THEN [err |-> channel.err, exp_name |-> <<>>, well |-> <<>>,
              site |-> <<>>, channel |-> ""]
        ELSE [err |-> "none", exp_name |-> exp_name,
              well |-> parts[1] \o Zfill(parts[2], 2),
              site |-> site, channel |-> channel.code]

\* CV7000.format(exp_name, well, site, channel)
CV7000(exp_name, well, site, channel) ==
    [form |-> "CV7000", n |-> exp_name, w |-> well, s |-> site,
     c |-> <<channel>>, ext |-> ".tif"]

\* ------------------------------------------------------------------------
\* The files and the path arguments of the model

DataDir == "/data"
File(name) == [dir |-> DataDir, name |-> name]

\* 20180328_TestAbs_G - 8(fld 4 wv Red - Cy5).tif
FileRed ==
    File(IC6000Name(<<"20180328", "_", "TestAbs">>, <<"G", " ", "-", " ", "8">>,
                    <<"4">>, <<" ", "Red", " ", "-", " ", "Cy5">>, ".tif"))
\* a matching name whose channel label is no key of the channel map
FileCy3 ==
    File(IC6000Name(<<"E", "_", "1">>, <<"B", "-", "0", "3">>,
                    <<"1", "2">>, <<" ", "Cy3">>, ".tif"))
\* C_13_fld_2_wv_405_Blue.TIFF: a TIFF the pattern does not match
FileBlue == File(PlainName(<<"C", "_", "13", "_", "fld">>, ".TIFF"))
\* photo.jpg
FileJpg == File(PlainName(<<"photo">>, ".jpg"))

\* A path argument: what exists(), isdir() and walker() say about it.
MissingPath == [exists |-> FALSE, isdir |-> FALSE, files |-> <<>>]
FilePath(f) == [exists |-> TRUE, isdir |-> FALSE, files |-> <<f>>]
DirPath(fs) == [exists |-> TRUE, isdir |-> TRUE, files |-> fs]

PathArgs ==
    { MissingPath, FilePath(FileRed), FilePath(FileCy3), FilePath(FileJpg),
      DirPath(<<FileRed, FileBlue>>) }

\* sequences over S of length lo..hi
SeqsOf(S, lo, hi) == UNION { [1..k -> S] : k \in lo..hi }

\* ------------------------------------------------------------------------
\* Utility functions

\* walker(path): the files below a directory
walker(path) == path.files

\* build_file_list(paths)
RECURSIVE build_file_list(_)
build_file_list(paths) ==
    IF paths = <<>> THEN <<>>
    ELSE LET path == Head(paths)
             rest == build_file_list(Tail(paths))
         IN  IF ~path.exists THEN rest
             ELSE IF path.isdir THEN walker(path) \o rest
             ELSE <<path.files[1]>> \o rest

\* The fill value of grouper; no command line is empty.
None == <<>>

\* grouper(iterable, size, fillvalue): izip_longest over `size` references
\* to one iterator, so each tuple takes the next `size` items and the last
\* one is padded with fillvalue.
RECURSIVE grouper(_, _, _)
grouper(iterable, size, fillvalue) ==
    IF iterable = <<>> THEN <<>>
    ELSE <<[j \in 1..size |->
              IF j <= Len(iterable) THEN iterable[j] ELSE fillvalue]>>
         \o grouper(SubSeq(iterable, size + 1, Len(iterable)), size, fillvalue)

\* an enumeration that starts at 1
EnumerateFromOne(seq) == [k \in 1..Len(seq) |-> [n |-> k, item |-> seq[k]]]

\* enumerate(seq)
Enumerate(seq) == [k \in 1..Len(seq) |-> [n |-> k - 1, item |-> seq[k]]]

\* a case block that prints the whole batch, padding included
CaseBodyWithoutBreak(batch) == batch

\* The commands one case block prints: those before the first None of the batch.
CaseBody(batch) ==
    LET k == Find(batch, None, 1) IN
    IF k = 0 THEN batch ELSE SubSeq(batch, 1, k - 1)

\* a walltime that is rounded up
MinutesRoundedUp(size) == CeilDiv(60 + SecondsPerCommand * size, 60)

\* minutes=int(1 + (5.0 * size)/60)
Minutes(size) == IntOfQuotient(60 + SecondsPerCommand * size, 60)

\* The script submit_to_slurm writes: the walltime of its header and its
\* case blocks, in the order written.
RenderScript(cmds_, size_) ==
    LET batches == Enumerate(grouper(cmds_, size_, None)) IN
    [written |-> TRUE,
     minutes |-> Minutes(size_),
     cases   |-> [k \in 1..Len(batches) |->
                    [label |-> batches[k].n, body |-> CaseBody(batches[k].item)]]]

NoScript == [written |-> FALSE, minutes |-> 0, cases |-> <<>>]

\* an `n` that is the number of batches less one, bound even with no batch
LoopVarNAlwaysBound(cases) == [bound |-> TRUE, value |-> Len(cases) - 1]

\* The value of `n` after the loop over the batches: the last index, or
\* unbound when the loop body never ran.
LoopVarN(cases) ==
    IF cases = <<>> THEN [bound |-> FALSE, value |-> 0]
    ELSE [bound |-> TRUE, value |-> cases[Len(cases)].label]

\* "mv '{old}' '{new}'"
FormatRename(old, new) == <<[tool |-> "mv", old |-> old, new |-> new]>>

\* "convert -depth 16 -colorspace gray '{old}' '{new}'", and "; rm -f '{old}'"
\* unless args.keep
FormatConvert(old, new, keep) ==
    <<[tool |-> "convert", old |-> old, new |-> new]>>
    \o (IF keep THEN <<>> ELSE <<[tool |-> "rm", old |-> old, new |-> old]>>)

\* ------------------------------------------------------------------------
\* The shell

RECURSIVE Flatten(_)
Flatten(lines) == IF lines = <<>> THEN <<>> ELSE Head(lines) \o Flatten(Tail(lines))

\* index of the first non-zero status, 0 if there is none
RECURSIVE FirstFailure(_, _)
FirstFailure(st, k) ==
    IF k > Len(st) THEN 0
    ELSE IF st[k] # 0 THEN k
    ELSE FirstFailure(st, k + 1)

\* A shell runs the simple commands `line`, st[k] being the exit status of
\* the k-th if it runs.  Without errexit every command runs and the status
\* is that of the last; under `set -e` the shell exits at the first failure.
ShellRun(line, st, errexit) ==
    LET f    == FirstFailure(st, 1)
        stop == IF errexit /\ f # 0 THEN f ELSE Len(line)
    IN  [trace  |-> [k \in 1..stop |->
                       [tool |-> line[k].tool, old |-> line[k].old, status |-> st[k]]],
         status |-> IF stop = 0 THEN 0 ELSE st[stop]]

Statuses(line) == [1..Len(line) -> {0, 1}]

\* The case blocks of the script whose label matches the array task id
MatchingCases(script_, id) ==
    { k \in 1..Len(script_.cases) : script_.cases[k].label = id }

\* One array task: the first matching case runs its commands under
\* `set -e -x` and exits 0; with no matching case the script exits 70.
RunScript(script_, id, st) ==
    LET m == MatchingCases(script_, id) IN
    IF m = {} THEN [id |-> id, code |-> EX_SOFTWARE, trace |-> <<>>]
    ELSE LET k == CHOOSE x \in m : \A y \in m : x <= y
             r == ShellRun(Flatten(script_.cases[k].body), st, TRUE)
         IN  [id |-> id, code |-> r.status, trace |-> r.trace]

\* ------------------------------------------------------------------------
\* run: the mode it takes

RunModeBatchFirst(just_print, batch) ==
    IF batch THEN "batch"
    ELSE IF just_print THEN "print"
    ELSE "direct"

RunMode(just_print, batch) ==
    IF just_print THEN "print"
    ELSE IF batch THEN "batch"
    ELSE "direct"

\* counters that drop a failed call
CountCallSuccessOnly(counts, status) ==
    IF status = 0 THEN [counts EXCEPT !.done = @ + 1] ELSE counts

\* the counters of the immediate-action loop after one check_call
CountCall(counts, status) ==
    IF status = 0
    THEN [counts EXCEPT !.done = @ + 1]
    ELSE [counts EXCEPT !.errored = @ + 1]

\* ------------------------------------------------------------------------
\* rename_func and convert_func: classification and commands

\* rename_func: the paths whose base name the pattern matches
RenameToDo(inbox_) ==
    SelectSeq(inbox_, LAMBDA path : PatternSearch(path.name).matched)

\* a count of the distinct ignored paths
RenameIgnoredDistinct(inbox_) ==
    Cardinality({ inbox_[k] : k \in { j \in 1..Len(inbox_) :
                                       ~PatternSearch(inbox_[j].name).matched } })

\* rename_func: how many paths were counted as ignored
RenameIgnored(inbox_) ==
    Len(SelectSeq(inbox_, LAMBDA path : ~PatternSearch(path.name).matched))

\* convert_func: ext.lower() in ['.tif', '.tiff']
IsTiff(path) == Lower(path.name.ext) \in {".tif", ".tiff"}

\* convert_func: (source, destination) for each TIFF
ConvertToDo(inbox_) ==
    LET tiffs == SelectSeq(inbox_, IsTiff) IN
    [k \in 1..Len(tiffs) |->
        <<tiffs[k], [tiffs[k] EXCEPT !.name.ext = ".png"]>>]

\* convert_func: how many paths were counted as ignored
ConvertIgnored(inbox_) ==
    Len(SelectSeq(inbox_, LAMBDA path : ~IsTiff(path)))

\* rename_func: the command list; the first file replace_fn fails on raises,
\* with the commands of the files before it already in the list.
RenameCmds(to_do_) ==
    LET res  == [k \in 1..Len(to_do_) |->
                   IC6000_replace(PatternSearch(to_do_[k].name), Channels)]
        bad  == { k \in 1..Len(to_do_) : res[k].err # "none" }
        stop == IF bad = {} THEN Len(to_do_) + 1
                ELSE CHOOSE x \in bad : \A y \in bad : x <= y
    IN  [err  |-> IF bad = {} THEN "none" ELSE res[stop].err,
         cmds |-> [k \in 1..(stop - 1) |->
                     FormatRename(to_do_[k],
                        [to_do_[k] EXCEPT !.name =
                            CV7000(res[k].exp_name, res[k].well,
                                   res[k].site, res[k].channel)])]]

\* convert_func: the command list
ConvertCmds(to_do_, keep) ==
    [k \in 1..Len(to_do_) |-> FormatConvert(to_do_[k][1], to_do_[k][2], keep)]

\* ------------------------------------------------------------------------
\* State

VARIABLES
    entry,      \* how the program is entered: "main", or a direct call of "submit_to_slurm"
    args,       \* the parsed command line
    pc,         \* the function the program is in
    exception,  \* the uncaught exception that ended the program, "none" if none
    exit_code,  \* the status sys.exit was called with, -1 if it was not
    inbox,      \* rename_func/convert_func: the collected files
    to_do,      \* rename_func/convert_func: the files to process
    ignored,    \* rename_func/convert_func: the count of ignored files
    reports,    \* the "Examined ..." lines printed
    cmds,       \* the command list
    run_args,   \* the arguments of the call of run
    run_calls,  \* how many times run was called
    size,       \* submit_to_slurm: its size argument
    script,     \* the batch script written
    sbatch,     \* the sbatch invocations: their --array ranges
    tasks,      \* the array tasks that ran, with their exit codes
    stdout,     \* the commands run printed
    i,          \* run: position of the immediate-action loop
    counts,     \* run: done and errored
    log,        \* the check_call invocations: command, what the shell ran, status
    summary     \* the "Successfully applied ..." lines printed

vars == <<entry, args, pc, exception, exit_code, inbox, to_do, ignored, reports,
          cmds, run_args, run_calls, size, script, sbatch, tasks, stdout, i,
          counts, log, summary>>

\* values --batch-size takes in the model
BatchSizes == {1, 2, DefaultBatchSize}

\* chunk sizes of a direct call of submit_to_slurm: the small ones, and one
\* whose walltime is a whole number of minutes
Sizes == (1..MaxSize) \cup {60 \div SecondsPerCommand}

\* commands of a direct call of submit_to_slurm
CmdPool ==
    { FormatRename(FileRed, [FileRed EXCEPT !.name.ext = ".bak"]),
      FormatConvert(FileBlue, [FileBlue EXCEPT !.name.ext = ".png"], FALSE) }

NoArgs ==
    [action |-> "none", path |-> <<>>, keep |-> FALSE, check |-> FALSE,
     batch |-> FALSE, batch_size |-> DefaultBatchSize]

NoRunArgs == [just_print |-> TRUE, batch |-> FALSE, verb |-> "none"]

InitCommon ==
    /\ exception = "none"
    /\ exit_code = -1
    /\ inbox = <<>>
    /\ to_do = <<>>
    /\ ignored = 0
    /\ reports = <<>>
    /\ run_args = NoRunArgs
    /\ run_calls = 0
    /\ script = NoScript
    /\ sbatch = <<>>
    /\ tasks = {}
    /\ stdout = <<>>
    /\ i = 0
    /\ counts = [done |-> 0, errored |-> 0]
    /\ log = <<>>
    /\ summary = <<>>

\* the program started from the command line
InitMain ==
    /\ entry = "main"
    /\ pc = "main"
    /\ args \in [action : {"convert", "rename"},
                 path : SeqsOf(PathArgs, 1, MaxPaths),
                 keep : BOOLEAN, check : BOOLEAN, batch : BOOLEAN,
                 batch_size : BatchSizes]
    /\ cmds = <<>>
    /\ size = 0

\* submit_to_slurm(cmds, size, prefix) called on its own
InitSubmit ==
    /\ entry = "submit_to_slurm"
    /\ pc = "submit_to_slurm"
    /\ args = NoArgs
    /\ cmds \in SeqsOf(CmdPool, 0, MaxCmds)
    /\ size \in Sizes

Init == InitCommon /\ (InitMain \/ InitSubmit)

\* ------------------------------------------------------------------------
\* main

\* main: --keep with rename is a usage error
main_usage ==
    /\ pc = "main"
    /\ args.action = "rename" /\ args.keep
    /\ exit_code' = EX_USAGE
    /\ pc' = "exit"
    /\ UNCHANGED <<entry, args, exception, inbox, to_do, ignored, reports, cmds,
                   run_args, run_calls, size, script, sbatch, tasks, stdout, i,
                   counts, log, summary>>

\* main: call rename_func or convert_func
main_call ==
    /\ pc = "main"
    /\ ~(args.action = "rename" /\ args.keep)
    /\ pc' = IF args.action = "rename" THEN "rename_func" ELSE "convert_func"
    /\ UNCHANGED <<entry, args, exception, exit_code, inbox, to_do, ignored,
                   reports, cmds, run_args, run_calls, size, script, sbatch,
                   tasks, stdout, i, counts, log, summary>>

\* rename_func, up to its call of run
rename_func ==
    /\ pc = "rename_func"
    /\ LET inbox_ == build_file_list(args.path)
           to_do_ == RenameToDo(inbox_)
           ign    == RenameIgnored(inbox_)
           built  == RenameCmds(to_do_)
       IN  /\ inbox' = inbox_
           /\ to_do' = to_do_
           /\ ignored' = ign
           /\ reports' = Append(reports,
                  [total |-> Len(inbox_), to_do |-> Len(to_do_), ignored |-> ign])
           /\ IF to_do_ = <<>>
              THEN /\ pc' = "done"
                   /\ UNCHANGED <<cmds, exception, run_args, run_calls>>
              ELSE /\ cmds' = built.cmds
                   /\ IF built.err # "none"
                      THEN /\ pc' = "error"
                           /\ exception' = built.err
                           /\ UNCHANGED <<run_args, run_calls>>
                      ELSE /\ pc' = "run"
                           /\ run_args' = [just_print |-> args.check,
                                           batch |-> args.batch, verb |-> "rename"]
                           /\ run_calls' = run_calls + 1
                           /\ UNCHANGED exception
    /\ UNCHANGED <<entry, args, exit_code, size, script, sbatch, tasks, stdout,
                   i, counts, log, summary>>

\* convert_func, up to its call of run
convert_func ==
    /\ pc = "convert_func"
    /\ LET inbox_ == build_file_list(args.path)
           to_do_ == ConvertToDo(inbox_)
           ign    == ConvertIgnored(inbox_)
       IN  /\ inbox' = inbox_
           /\ to_do' = to_do_
           /\ ignored' = ign
           /\ reports' = Append(reports,
                  [total |-> Len(inbox_), to_do |-> Len(to_do_), ignored |-> ign])
           /\ IF to_do_ = <<>>
              THEN /\ pc' = "done"
                   /\ UNCHANGED <<cmds, run_args, run_calls>>
              ELSE /\ cmds' = ConvertCmds(to_do_, args.keep)
                   /\ pc' = "run"
                   /\ run_args' = [just_print |-> args.check,
                                   batch |-> args.batch, verb |-> "convert"]
                   /\ run_calls' = run_calls + 1
    /\ UNCHANGED <<entry, args, exception, exit_code, size, script, sbatch,
                   tasks, stdout, i, counts, log, summary>>

\* ------------------------------------------------------------------------
\* run

\* run: print the commands but don't run them
run_print ==
    /\ pc = "run"
    /\ RunMode(run_args.just_print, run_args.batch) = "print"
    /\ stdout' = stdout \o cmds
    /\ pc' = "done"
    /\ UNCHANGED <<entry, args, exception, exit_code, inbox, to_do, ignored,
                   reports, cmds, run_args, run_calls, size, script, sbatch,
                   tasks, i, counts, log, summary>>

\* run: submit_to_slurm(cmds, batch, prefix=verb)
run_batch ==
    /\ pc = "run"
    /\ RunMode(run_args.just_print, run_args.batch) = "batch"
    /\ size' = BoolAsInt(run_args.batch)
    /\ pc' = "submit_to_slurm"
    /\ UNCHANGED <<entry, args, exception, exit_code, inbox, to_do, ignored,
                   reports, cmds, run_args, run_calls, script, sbatch, tasks,
                   stdout, i, counts, log, summary>>

\* run: immediate action, the loop starts
run_direct ==
    /\ pc = "run"
    /\ RunMode(run_args.just_print, run_args.batch) = "direct"
    /\ i' = 1
    /\ counts' = [done |-> 0, errored |-> 0]
    /\ pc' = "direct"
    /\ UNCHANGED <<entry, args, exception, exit_code, inbox, to_do, ignored,
                   reports, cmds, run_args, run_calls, size, script, sbatch,
                   tasks, stdout, log, summary>>

\* run: check_call(cmd, shell=True) of the next command
run_check_call ==
    /\ pc = "direct"
    /\ i <= Len(cmds)
    /\ \E st \in Statuses(cmds[i]) :
         LET r == ShellRun(cmds[i], st, FALSE) IN
         /\ log' = Append(log, [cmd |-> cmds[i], trace |-> r.trace,
                                status |-> r.status])
         /\ counts' = CountCall(counts, r.status)
    /\ i' = i + 1
    /\ UNCHANGED <<entry, args, pc, exception, exit_code, inbox, to_do, ignored,
                   reports, cmds, run_args, run_calls, size, script, sbatch,
                   tasks, stdout, summary>>

\* run: the loop is over, print the summary
run_summary ==
    /\ pc = "direct"
    /\ i > Len(cmds)
    /\ summary' = Append(summary, [verb |-> run_args.verb, done |-> counts.done,
                                   errored |-> counts.errored])
    /\ pc' = "done"
    /\ UNCHANGED <<entry, args, exception, exit_code, inbox, to_do, ignored,
                   reports, cmds, run_args, run_calls, size, script, sbatch,
                   tasks, stdout, i, counts, log>>

\* ------------------------------------------------------------------------
\* submit_to_slurm and the array job

\* submit_to_slurm: write the script, flush it, call sbatch
submit_to_slurm ==
    /\ pc = "submit_to_slurm"
    /\ LET script_ == RenderScript(cmds, size)
           n       == LoopVarN(script_.cases)
       IN  /\ script' = script_
           /\ IF n.bound
              THEN /\ sbatch' = Append(sbatch, [lo |-> 0, hi |-> n.value])
                   /\ pc' = "submitted"
                   /\ UNCHANGED exception
              ELSE /\ pc' = "error"
                   /\ exception' = "UnboundLocalError"
                   /\ UNCHANGED sbatch
    /\ UNCHANGED <<entry, args, exit_code, inbox, to_do, ignored, reports, cmds,
                   run_args, run_calls, size, tasks, stdout, i, counts, log,
                   summary>>

\* the scheduler runs the script for one id of the submitted range
array_task ==
    /\ pc = "submitted"
    /\ \E id \in sbatch[1].lo .. sbatch[1].hi :
         /\ \A t \in tasks : t.id # id
         /\ LET m     == MatchingCases(script, id)
                lines == IF m = {} THEN <<>>
                         ELSE Flatten(script.cases[CHOOSE x \in m :
                                          \A y \in m : x <= y].body)
            IN  \E st \in Statuses(lines) :
                  tasks' = tasks \cup {RunScript(script, id, st)}
    /\ UNCHANGED <<entry, args, pc, exception, exit_code, inbox, to_do, ignored,
                   reports, cmds, run_args, run_calls, size, script, sbatch,
                   stdout, i, counts, log, summary>>

Next ==
    \/ main_usage
    \/ main_call
    \/ rename_func
    \/ convert_func
    \/ run_print
    \/ run_batch
    \/ run_direct
    \/ run_check_call
    \/ run_summary
    \/ submit_to_slurm
    \/ array_task

Spec == Init /\ [][Next]_vars

\* ------------------------------------------------------------------------
\* Properties

CaseBodies == [k \in 1..Len(script.cases) |-> script.cases[k].body]

\* C1: for a non-empty command list and a positive chunk size, the case
\* blocks of the script, read in order, hold exactly the commands of the
\* list in their order, no block holds more than `size` commands, there are
\* ceil(L / size) blocks, and None is never printed as a command.
C1_Partition ==
    (script.written /\ cmds # <<>>) =>
        /\ Flatten(CaseBodies) = cmds
        /\ \A k \in 1..Len(CaseBodies) :
             /\ Len(CaseBodies[k]) <= size
             /\ \A j \in 1..Len(CaseBodies[k]) : CaseBodies[k][j] # None
        /\ Len(script.cases) = CeilDiv(Len(cmds), size)

\* a list of three commands cut into chunks of two, the last one padded
C1_Witness ==
    /\ script.written
    /\ Len(cmds) = 3
    /\ size = 2
    /\ Len(script.cases) = 2

\* C2: for a non-empty command list the case labels are 0..N-1, sbatch is
\* called once with --array=0-(N-1), every id of that range matches exactly
\* one case, and no array task exits with the fallback's status 70.
C2_ArrayRange ==
    (script.written /\ cmds # <<>>) =>
        LET N == Len(script.cases) IN
        /\ \A k \in 1..N : script.cases[k].label = k - 1
        /\ sbatch = <<[lo |-> 0, hi |-> N - 1]>>
        /\ \A id \in sbatch[1].lo .. sbatch[1].hi :
             Cardinality(MatchingCases(script, id)) = 1
        /\ \A t \in tasks : t.code # EX_SOFTWARE

\* every task of an array of at least two has run
C2_Witness ==
    /\ pc = "submitted"
    /\ Len(script.cases) >= 2
    /\ { t.id : t \in tasks } = 0 .. (Len(script.cases) - 1)

\* C3: with --batch and without --check, the size submit_to_slurm is given
\* is args.batch_size.
C3_BatchSize ==
    (entry = "main" /\ args.batch /\ ~args.check
        /\ pc \in {"submit_to_slurm", "submitted"})
    => size = args.batch_size

\* C4: with --check, whatever --batch is, run prints every command once in
\* list order, and nothing is executed, written or submitted.
C4_Preview ==
    (entry = "main" /\ args.check) =>
        /\ log = <<>>
        /\ summary = <<>>
        /\ ~script.written
        /\ sbatch = <<>>
        /\ tasks = {}
        /\ pc \notin {"submit_to_slurm", "submitted", "direct"}
        /\ (run_calls > 0 /\ pc = "done") => stdout = cmds
        /\ pc # "done" => stdout = <<>>

\* the preview of at least two commands with --batch given as well
C4_Witness ==
    /\ entry = "main"
    /\ args.check /\ args.batch
    /\ pc = "done"
    /\ Len(cmds) >= 2
    /\ stdout = cmds

\* C5: the report of rename_func and of convert_func counts every collected
\* path once, to_do + ignored = n, and run is handed as many commands as
\* there are files to do.
C5_Completeness ==
    \A k \in 1..Len(reports) :
        /\ reports[k].total = Len(inbox)
        /\ reports[k].to_do + reports[k].ignored = reports[k].total
        /\ reports[k].to_do = Len(to_do)
        /\ reports[k].ignored = ignored
        /\ run_calls > 0 => Len(cmds) = reports[k].to_do

\* a list with a duplicate path, some files to do and some ignored, run called
C5_Witness ==
    /\ run_calls > 0
    /\ Len(reports) = 1
    /\ reports[1].ignored > 0
    /\ \E j, k \in 1..Len(inbox) : j # k /\ inbox[j] = inbox[k]

\* C6 as stated: the walltime is ceil(1 + 5 * size / 60) minutes.
C6_WalltimeCeil ==
    script.written => script.minutes = CeilDiv(60 + 5 * size, 60)

\* C6: the walltime is 1 + 5 * size / 60 minutes with the fraction dropped,
\* that is 1 + size div 12.
C6_WalltimeTruncated ==
    script.written => script.minutes = 1 + (size \div 12)

\* a chunk size for which dropping the fraction and rounding up differ
C6_Witness ==
    /\ script.written
    /\ size = 2
    /\ script.minutes = 1

\* C7: sbatch is never called with an empty or negative array range, not
\* when submit_to_slurm is given an empty list, and rename_func and
\* convert_func do not call run when there is no file to process.
C7_NoDegenerateArray ==
    /\ \A k \in 1..Len(sbatch) : sbatch[k].lo = 0 /\ sbatch[k].hi >= sbatch[k].lo
    /\ (pc \in {"submitted", "error"} /\ cmds = <<>>) => sbatch = <<>>
    /\ (entry = "main" /\ reports # <<>> /\ to_do = <<>>) =>
          /\ run_calls = 0
          /\ pc = "done"
          /\ sbatch = <<>>

\* submit_to_slurm was given an empty list
C7_Witness ==
    /\ entry = "submit_to_slurm"
    /\ cmds = <<>>
    /\ script.written
    /\ pc = "error"
    /\ exception = "UnboundLocalError"
    /\ sbatch = <<>>

\* a file to rename whose channel label is no key of the channel map
HasUnknownChannel(path) ==
    Replace(PatternSearch(path.name).c, " ") \notin DOMAIN Channels

\* C8: in rename, when a matching file has an unknown channel label, the
\* KeyError ends the run before run is called: nothing is printed, executed
\* or submitted, also for the files before it.
C8_UnknownChannelAborts ==
    (/\ entry = "main"
     /\ args.action = "rename"
     /\ reports # <<>>
     /\ \E k \in 1..Len(to_do) : HasUnknownChannel(to_do[k]))
    => /\ pc = "error"
       /\ exception = "KeyError"
       /\ run_calls = 0
       /\ stdout = <<>>
       /\ log = <<>>
       /\ summary = <<>>
       /\ ~script.written
       /\ sbatch = <<>>
       /\ tasks = {}

\* the unknown label comes after a file whose command was already built
C8_Witness ==
    /\ pc = "error"
    /\ exception = "KeyError"
    /\ Len(to_do) >= 2
    /\ ~HasUnknownChannel(to_do[1])
    /\ Len(cmds) >= 1

DirectMode == run_calls > 0 /\ RunMode(run_args.just_print, run_args.batch) = "direct"

\* C9: in direct mode the commands are executed one after the other in list
\* order, each once; a failing command is counted as an error and the loop
\* goes on; at the end done + errored is the number of commands and the
\* summary is printed once.
C9_Direct ==
    (DirectMode /\ pc \in {"direct", "done"}) =>
        /\ Len(log) <= Len(cmds)
        /\ \A k \in 1..Len(log) : log[k].cmd = cmds[k]
        /\ counts.done + counts.errored = Len(log)
        /\ counts.errored = Cardinality({ k \in 1..Len(log) : log[k].status # 0 })
        /\ pc = "direct" => (Len(log) = i - 1 /\ summary = <<>>)
        /\ pc = "done" =>
             /\ Len(log) = Len(cmds)
             /\ summary = <<[verb |-> run_args.verb, done |-> counts.done,
                             errored |-> counts.errored]>>

\* a run that went on after its first command failed
C9_Witness ==
    /\ DirectMode
    /\ pc = "done"
    /\ Len(log) >= 2
    /\ log[1].status # 0
    /\ log[Len(log)].status = 0
    /\ counts.done >= 1
    /\ counts.errored >= 1

\* C10: in direct mode, a convert command whose conversion fails does not
\* remove its source and is counted as an error.
C10_FailedConvertKeepsSource ==
    \A k \in 1..Len(log) :
        (log[k].trace[1].tool = "convert" /\ log[k].trace[1].status # 0) =>
            /\ \A j \in 1..Len(log[k].trace) : log[k].trace[j].tool # "rm"
            /\ log[k].status # 0

====
